---- MODULE Spec2Model ----
(***************************************************************************)
(* Model of parse_oeis_database.py: the b-file parser parse_bfile_content, *)
(* the entry parser parse_oeis_content and the batch driver                *)
(* process_database, from the point where the database file has been       *)
(* found and the SELECT has been executed.                                 *)
(*                                                                         *)
(* Text is modelled character by character: a Python str is a sequence of  *)
(* one-character strings, so that split, strip, startswith, int() and      *)
(* str() are computed the way Python computes them.  A failing assert and  *)
(* an uncaught ValueError both leave parse_oeis_content by an exception;   *)
(* the model returns a record with outcome "fatal" in that case.  The      *)
(* logger is modelled by the set of the kinds of messages that were        *)
(* emitted.  The character-set warning of lines 197-200 depends on the     *)
(* charmap module only and changes no state; it is left out.               *)
(***************************************************************************)
EXTENDS Integers, Sequences, FiniteSets, TLC

VARIABLES db, pc, cursor, entries, last, pickled

vars == <<db, pc, cursor, entries, last, pickled>>

(***************************************************************************)
(* Python str helpers                                                      *)
(***************************************************************************)
NL == "\n"
TAB == "\t"

\* Python's None; a value that may be None is <<>> or <<v>>
None == <<>>

Some(v) == <<v>>

DigitChars == <<"0", "1", "2", "3", "4", "5", "6", "7", "8", "9">>

IsDigit(c) == \E d \in 1..10 : DigitChars[d] = c

DigitVal(c) == (CHOOSE d \in 1..10 : DigitChars[d] = c) - 1

\* str.strip() and int() treat these as whitespace
IsSpace(c) == c \in {" ", TAB, NL, "\r"}

StartsWith(s, p) == Len(s) >= Len(p) /\ SubSeq(s, 1, Len(p)) = p

EndsWith(s, p) == Len(s) >= Len(p) /\ SubSeq(s, Len(s) - Len(p) + 1, Len(s)) = p

\* s[n:] with n counted from 0 as in Python
DropFirst(s, n) == SubSeq(s, n + 1, Len(s))

RECURSIVE Split(_, _)
\* s.split(sep) for a one-character separator: never an empty list
Split(s, sep) ==
    IF \A i \in 1..Len(s) : s[i] # sep
    THEN <<s>>
    ELSE LET k == CHOOSE i \in 1..Len(s) :
                      s[i] = sep /\ \A j \in 1..(i - 1) : s[j] # sep
         IN <<SubSeq(s, 1, k - 1)>> \o Split(SubSeq(s, k + 1, Len(s)), sep)

RECURSIVE Join(_, _)
\* sep.join(parts)
Join(parts, sep) ==
    IF Len(parts) = 0 THEN <<>>
    ELSE IF Len(parts) = 1 THEN parts[1]
    ELSE parts[1] \o sep \o Join(Tail(parts), sep)

\* s.strip()
Strip(s) ==
    IF \A i \in 1..Len(s) : IsSpace(s[i])
    THEN <<>>
    ELSE LET a == CHOOSE i \in 1..Len(s) :
                      ~IsSpace(s[i]) /\ \A j \in 1..(i - 1) : IsSpace(s[j])
             b == CHOOSE i \in 1..Len(s) :
                      ~IsSpace(s[i]) /\ \A j \in (i + 1)..Len(s) : IsSpace(s[j])
         IN SubSeq(s, a, b)

RECURSIVE DigitsToNat(_)
\* value of a run of decimal digits ("_" separators are skipped)
DigitsToNat(s) ==
    IF Len(s) = 0 THEN 0
    ELSE IF s[Len(s)] = "_" THEN DigitsToNat(SubSeq(s, 1, Len(s) - 1))
    ELSE 10 * DigitsToNat(SubSeq(s, 1, Len(s) - 1)) + DigitVal(s[Len(s)])

\* the body of an int() literal after the sign: digits, single underscores
\* only between digits
IsIntBody(s) ==
    /\ Len(s) > 0
    /\ \A i \in 1..Len(s) : IsDigit(s[i]) \/ s[i] = "_"
    /\ IsDigit(s[1])
    /\ IsDigit(s[Len(s)])
    /\ \A i \in 1..(Len(s) - 1) : ~(s[i] = "_" /\ s[i + 1] = "_")

\* int(s) does not raise ValueError
IntParses(s) ==
    LET t == Strip(s)
    IN  /\ Len(t) > 0
        /\ IF t[1] \in {"+", "-"} THEN IsIntBody(Tail(t)) ELSE IsIntBody(t)

\* int(s), for a string that parses
IntOf(s) ==
    LET t == Strip(s)
    IN  IF t[1] = "-" THEN 0 - DigitsToNat(Tail(t))
        ELSE IF t[1] = "+" THEN DigitsToNat(Tail(t))
        ELSE DigitsToNat(t)

RECURSIVE NatStr(_)
NatStr(n) ==
    IF n < 10 THEN <<DigitChars[n + 1]>>
    ELSE NatStr(n \div 10) \o <<DigitChars[(n % 10) + 1]>>

\* str(n)
IntStr(n) == IF n < 0 THEN <<"-">> \o NatStr(0 - n) ELSE NatStr(n)

\* abs(n)
Abs(n) == IF n < 0 THEN 0 - n ELSE n

Min(a, b) == IF a < b THEN a ELSE b

(***************************************************************************)
(* parse_bfile_content                                                     *)
(***************************************************************************)

\* number of consecutive characters of s from position p on that are in cls
RunLen(s, p, cls) ==
    CHOOSE n \in 0..(Len(s) - p + 1) :
        /\ \A j \in p..(p + n - 1) : s[j] \in cls
        /\ (p + n > Len(s) \/ s[p + n] \notin cls)

DigitSet == {DigitChars[d] : d \in 1..10}

\* the group -?[0-9]+ tried at position p: the length it consumes (greedy),
\* 0 when it does not match there
SignedDigitsLen(s, p) ==
    LET sign == IF p <= Len(s) /\ s[p] = "-" THEN 1 ELSE 0
        digits == RunLen(s, p + sign, DigitSet)
    IN  IF digits = 0 THEN 0 ELSE sign + digits

\* bfile_line_pattern.match(line): re.match anchors the pattern at the start
\* of the line only; what follows the second group is not looked at
bfile_line_pattern(line) ==
    LET n1 == SignedDigitsLen(line, 1)
        ws == RunLen(line, n1 + 1, {" ", TAB})
        n2 == SignedDigitsLen(line, n1 + ws + 1)
    IN  IF n1 = 0 \/ ws = 0 \/ n2 = 0
        THEN None
        ELSE Some([group1 |-> SubSeq(line, 1, n1),
                   group2 |-> SubSeq(line, n1 + ws + 1, n1 + ws + n2)])

RECURSIVE BfileLoop(_, _, _, _, _)
\* the for loop of parse_bfile_content from line number line_nr on
BfileLoop(lines, line_nr, indexes, values, log) ==
    IF line_nr > Len(lines)
    THEN [indexes |-> indexes, values |-> values, log |-> log]
    ELSE IF StartsWith(lines[line_nr], <<"#">>)
    THEN BfileLoop(lines, line_nr + 1, indexes, values, log)
    ELSE LET line == Strip(lines[line_nr])
             match == bfile_line_pattern(line)
         IN  IF Len(line) = 0
             THEN BfileLoop(lines, line_nr + 1, indexes, values, log)
             ELSE IF match = None
             THEN [indexes |-> indexes, values |-> values,
                   log |-> log \cup {"BfileLineUnparsable"}]
             ELSE LET index == IntOf(match[1].group1)
                      value == IntOf(match[1].group2)
                  IN  IF Len(indexes) > 0 /\ index # indexes[Len(indexes)] + 1
                      THEN [indexes |-> indexes, values |-> values,
                            log |-> log \cup {"BfileNonSequential"}]
                      ELSE BfileLoop(lines, line_nr + 1, Append(indexes, index),
                                     Append(values, value), log)

parse_bfile_content(oeis_id, bfile_content) ==
    LET r == BfileLoop(Split(bfile_content, NL), 1, <<>>, <<>>, {})
    IN  [first_index |-> IF Len(r.indexes) > 0 THEN Some(r.indexes[1]) ELSE None,
         values |-> r.values,
         log |-> r.log]

(***************************************************************************)
(* parse_oeis_content: order of the directives                             *)
(***************************************************************************)

expected_directives ==
    {"I", "S", "T", "U", "N", "D", "H", "F", "Y", "A", "O", "p", "t", "o",
     "E", "e", "K", "C"}

\* positions reachable after one mandatory character c
ReOne(s, P, c) == {p + 1 : p \in {q \in P : q <= Len(s) /\ s[q] = c}}

\* positions reachable after c*
ReStar(s, P, c) ==
    {q \in 1..(Len(s) + 1) :
        \E p \in P : p <= q /\ \A j \in p..(q - 1) : s[j] = c}

\* positions reachable after c?
ReOpt(s, P, c) == P \cup ReOne(s, P, c)

\* positions reachable after the pattern up to and including E*
DirectiveOrderEnds(s) ==
    LET pI == ReOne(s, {1}, "I")
        pS == ReOne(s, pI, "S")
        pT == ReOne(s, pS, "T")
        pU == ReOne(s, pT, "U")
        pN == ReOne(s, pS \cup pT \cup pU, "N")
        pC == ReStar(s, pN, "C")
        pD == ReStar(s, pC, "D")
        pH == ReStar(s, pD, "H")
        pF == ReStar(s, pH, "F")
        pe == ReStar(s, pF, "e")
        pp == ReStar(s, pe, "p")
        pt == ReStar(s, pp, "t")
        po == ReStar(s, pt, "o")
        pY == ReStar(s, po, "Y")
        pK == ReOne(s, pY, "K")
        pO == ReOpt(s, pK, "O")
        pA == ReOpt(s, pO, "A")
    IN  ReStar(s, pA, "E")

\* the pattern without its final $
DirectiveOrderUnanchored(s) == DirectiveOrderEnds(s) # {}

\* expected_directive_order.match(s) is not None: anchored at the start by
\* match and at the end by $ (which also matches before a final newline)
expected_directive_order(s) ==
    \E p \in DirectiveOrderEnds(s) :
        p = Len(s) + 1 \/ (p = Len(s) /\ s[p] = NL)

(***************************************************************************)
(* parse_oeis_content: the fields                                          *)
(***************************************************************************)

\* the lines whose directive (line[:2]) is "%" followed by d
LinesOf(lines, d) == SelectSeq(lines, LAMBDA l : SubSeq(l, 1, 2) = <<"%", d>>)

\* line_X after the collecting loop: None, or the line
LineOf(lines, d) ==
    IF LinesOf(lines, d) = <<>> THEN None ELSE Some(LinesOf(lines, d)[1])

\* one of the shapes "N0000" / "M0000"
IsCode(s, letter) ==
    Len(s) = 5 /\ s[1] = letter /\ \A i \in 2..5 : IsDigit(s[i])

\* some pattern of identification_patterns matches
identification_patterns(id) ==
    \/ IsCode(id, "N")
    \/ IsCode(id, "M")
    \/ /\ Len(id) = 11
       /\ IsCode(SubSeq(id, 1, 5), "M")
       /\ id[6] = " "
       /\ IsCode(SubSeq(id, 7, 11), "N")
    \/ /\ Len(id) = 17
       /\ IsCode(SubSeq(id, 1, 5), "M")
       /\ id[6] = " "
       /\ IsCode(SubSeq(id, 7, 11), "N")
       /\ id[12] = " "
       /\ IsCode(SubSeq(id, 13, 17), "N")

\* the fragments of STU.split(",") that are not empty
StuFragments(STU) == SelectSeq(Split(STU, ","), LAMBDA f : Len(f) > 0)

\* [int(value_string) for value_string in STU.split(",") if len(value_string) > 0]
StuValues(STU) ==
    [i \in 1..Len(StuFragments(STU)) |-> IntOf(StuFragments(STU)[i])]

\* ",".join([str(n) for n in stu_values])
JoinValues(vals) == Join([i \in 1..Len(vals) |-> IntStr(vals[i])], <<",">>)

\* the values, not the text, compared with their round trip
StuRoundTripOfValues(stu_values, STU) ==
    StuValues(JoinValues(stu_values)) = stu_values

\* the condition of the assert of line 275
StuRoundTrip(stu_values, STU) == JoinValues(stu_values) = STU

\* the first two fragments only
OffsetTupleOfTwo(payload) ==
    LET parts == Split(payload, ",")
    IN  [i \in 1..Min(2, Len(parts)) |-> IntOf(parts[i])]

\* tuple(int(o) for o in offset.split(",")), when no int() raises
OffsetTuple(payload) ==
    LET parts == Split(payload, ",")
    IN  [i \in 1..Len(parts) |-> IntOf(parts[i])]

\* code points, as far as they order the characters of the model
CharOrder ==
    <<TAB, NL, "\r", " ", "#", "%", "+", ",", "-",
      "0", "1", "2", "3", "4", "5", "6", "7", "8", "9",
      "A", "C", "D", "E", "F", "H", "I", "K", "M", "N", "O", "S", "T", "U",
      "Y", "_",
      "a", "b", "c", "d", "e", "f", "g", "h", "i", "j", "k", "l", "m", "n",
      "o", "p", "q", "r", "s", "t", "u", "v", "w", "x", "y", "z">>

Ord(c) == CHOOSE i \in 1..Len(CharOrder) : CharOrder[i] = c

\* a < b for two Python strings
StrLess(a, b) ==
    \/ \E i \in 1..Min(Len(a), Len(b)) :
          /\ \A j \in 1..(i - 1) : a[j] = b[j]
          /\ Ord(a[i]) < Ord(b[i])
    \/ /\ Len(a) < Len(b)
       /\ \A j \in 1..Len(a) : a[j] = b[j]

RECURSIVE SortedList(_)
\* sorted(S) for a set of strings
SortedList(S) ==
    IF S = {} THEN <<>>
    ELSE LET m == CHOOSE x \in S : \A y \in S \ {x} : StrLess(x, y)
         IN  <<m>> \o SortedList(S \ {m})

Range(f) == {f[i] : i \in DOMAIN f}

\* sorted(set(keywords)): the empty keyword is kept
CanonifyKeepingEmpty(keywords) == SortedList(Range(keywords))

\* sorted(set(k for k in keywords if k != ""))
CanonifyKeywords(keywords) == SortedList({k \in Range(keywords) : k # <<>>})

expected_keywords ==
    {<<"b","a","s","e">>, <<"b","r","e","f">>,
     <<"c","h","a","n","g","e","d">>, <<"c","o","f","r">>,
     <<"c","o","n","s">>, <<"c","o","r","e">>, <<"d","e","a","d">>,
     <<"d","u","m","b">>, <<"d","u","p","e">>, <<"e","a","s","y">>,
     <<"e","i","g","e","n">>, <<"f","i","n","i">>, <<"f","r","a","c">>,
     <<"f","u","l","l">>, <<"h","a","r","d">>, <<"h","e","a","r">>,
     <<"l","e","s","s">>, <<"l","o","o","k">>, <<"m","o","r","e">>,
     <<"m","u","l","t">>, <<"n","e","w">>, <<"n","i","c","e">>,
     <<"n","o","n","n">>, <<"o","b","s","c">>, <<"s","i","g","n">>,
     <<"t","a","b","f">>, <<"t","a","b","l">>, <<"u","n","e","d">>,
     <<"u","n","k","n">>, <<"w","a","l","k">>, <<"w","o","r","d">>,
     <<"a","l","l","o","c","a","t","e","d">>}

expected_keywords_set == expected_keywords

\* the warnings of lines 331-344 and 350-351
KeywordWarnings(fragments, keywords) ==
    LET unexpected_keywords == Range(fragments) \ expected_keywords_set
    IN  {w \in {"EmptyKeyword", "UnknownKeyword", "DuplicateKeyword",
                "FullWithoutFini"} :
           \/ w = "EmptyKeyword" /\ <<>> \in unexpected_keywords
           \/ w = "UnknownKeyword" /\ unexpected_keywords \ {<<>>} # {}
           \/ /\ w = "DuplicateKeyword"
              /\ \E i, j \in 1..Len(fragments) :
                    i # j /\ fragments[i] = fragments[j]
           \/ /\ w = "FullWithoutFini"
              /\ <<"f","u","l","l">> \in Range(keywords)
              /\ <<"f","i","n","i">> \notin Range(keywords)}

\* the shorter instead of the longer list on agreement
ReconcileShorter(stu_values, bfile_values) ==
    IF \A i \in 1..Min(Len(stu_values), Len(bfile_values)) :
           bfile_values[i] = stu_values[i]
    THEN IF Len(bfile_values) < Len(stu_values)
         THEN bfile_values
         ELSE stu_values
    ELSE stu_values

\* the b-file instead of the inline values on a mismatch
ReconcileTrustingBfile(stu_values, bfile_values) ==
    IF \A i \in 1..Min(Len(stu_values), Len(bfile_values)) :
           bfile_values[i] = stu_values[i]
    THEN IF Len(bfile_values) > Len(stu_values)
         THEN bfile_values
         ELSE stu_values
    ELSE bfile_values

\* lines 360-368: the values of the record
Reconcile(stu_values, bfile_values) ==
    IF \A i \in 1..Min(Len(stu_values), Len(bfile_values)) :
           bfile_values[i] = stu_values[i]
    THEN IF Len(bfile_values) > Len(stu_values)
         THEN bfile_values
         ELSE stu_values
    ELSE stu_values

\* lines 357-380: the messages of the reconciliation
ReconcileLog(stu_values, bfile_first_index, bfile_values, values, offset) ==
    LET exceeds == {i \in 1..Len(values) : Abs(values[i]) > 1}
        \* 1 + min(...) over indexes counted from 0
        first_index_where_magnitude_exceeds_1 ==
            IF exceeds # {}
            THEN CHOOSE i \in exceeds : \A j \in exceeds : i <= j
            ELSE 1
    IN  {w \in {"BfileShorterThanInline", "ValuesMismatch",
                "OffsetIndexMismatch", "OffsetMagnitudeMismatch"} :
           \/ /\ w = "BfileShorterThanInline"
              /\ ~(Len(bfile_values) >= Len(stu_values))
           \/ /\ w = "ValuesMismatch"
              /\ \E i \in 1..Min(Len(stu_values), Len(bfile_values)) :
                    bfile_values[i] # stu_values[i]
           \/ /\ w = "OffsetIndexMismatch"
              /\ Len(offset) > 0
              /\ Some(offset[1]) # bfile_first_index
           \/ /\ w = "OffsetMagnitudeMismatch"
              /\ Len(offset) > 1
              /\ offset[2] # first_index_where_magnitude_exceeds_1}

(***************************************************************************)
(* parse_oeis_content                                                      *)
(***************************************************************************)

\* body applied to the value of e: an assignment followed by the statements
\* that use the assigned variable
Bind(e, body(_)) == CHOOSE r \in {body(v) : v \in {e}} : TRUE

\* the local variables of a call before anything is assigned, and how the
\* call ended: outcome "ok" (a record is returned in entry) or "fatal" (an
\* exception left the function; error names the statement that raised)
NoLocals ==
    [outcome |-> "none", error |-> "", log |-> {},
     lines |-> <<>>, directive_order |-> <<>>,
     line_I |-> None, line_S |-> None, line_T |-> None, line_U |-> None,
     line_N |-> None, line_K |-> None, line_O |-> None, lines_A |-> <<>>,
     STU |-> <<>>, stu_values |-> <<>>, keyword_fragments |-> <<>>,
     bfile_first_index |-> None, bfile_values |-> <<>>,
     entry |-> [oeis_id |-> 0, identification |-> None, values |-> <<>>,
                name |-> <<>>, offset |-> <<>>, keywords |-> <<>>]]

\* a failing assert, or an int() that raises ValueError
Raise(f, kind) == [f EXCEPT !.outcome = "fatal", !.error = kind]

\* logger.warning / logger.error
Warn(f, kinds) == [f EXCEPT !.log = @ \cup kinds]

\* the statements step, unless an exception has left the function before
Then(f, step(_)) ==
    Bind(f, LAMBDA g : IF g.outcome = "fatal" THEN g ELSE step(g))

\* lines 168-176: the lines and the order of their directives
CheckOrder(f, main_content) ==
    Bind(Split(main_content, NL), LAMBDA lines :
        IF \E i \in 1..Len(lines) : Len(lines[i]) < 2 \/ lines[i][1] # "%"
        THEN Raise(f, "MalformedLine")
        ELSE Bind([i \in 1..Len(lines) |-> lines[i][2]], LAMBDA directive_order :
                 IF expected_directive_order(directive_order)
                 THEN [f EXCEPT !.lines = lines,
                                !.directive_order = directive_order]
                 ELSE Raise([f EXCEPT !.directive_order = directive_order],
                            "OutOfOrderDirectives")))

\* lines 180-230: the loop that collects the directives
CollectDirectives(f) ==
    IF \E i \in 1..Len(f.lines) : f.lines[i][2] \notin expected_directives
    THEN Raise(f, "UnknownDirective")
    ELSE IF \E d \in {"I", "S", "T", "U", "N", "K", "O"} :
                Len(LinesOf(f.lines, d)) > 1
    THEN Raise(f, "DuplicateDirective")
    ELSE [f EXCEPT !.line_I = LineOf(f.lines, "I"),
                   !.line_S = LineOf(f.lines, "S"),
                   !.line_T = LineOf(f.lines, "T"),
                   !.line_U = LineOf(f.lines, "U"),
                   !.line_N = LineOf(f.lines, "N"),
                   !.line_K = LineOf(f.lines, "K"),
                   !.line_O = LineOf(f.lines, "O"),
                   !.lines_A = LinesOf(f.lines, "A")]

\* lines 234-246: the I directive
ProcessI(f) ==
    IF f.line_I = None
    THEN Raise(f, "MissingMandatoryDirective")
    ELSE IF f.line_I[1] = <<"%", "I">>
    THEN f
    ELSE IF ~StartsWith(f.line_I[1], <<"%", "I", " ">>)
    THEN Raise(f, "MissingPrefix")
    ELSE IF identification_patterns(DropFirst(f.line_I[1], 3))
    THEN [f EXCEPT !.entry.identification = Some(DropFirst(f.line_I[1], 3))]
    ELSE Warn([f EXCEPT !.entry.identification = Some(DropFirst(f.line_I[1], 3))],
              {"IllFormedIdentification"})

\* lines 253-265: the S, T and U lines are there as they should
CheckSTU(f) ==
    IF f.line_S = None
    THEN Raise(f, "MissingMandatoryDirective")
    ELSE IF (f.line_T # None) # EndsWith(f.line_S[1], <<",">>)
    THEN Raise(f, "InconsistentContinuation")
    ELSE IF (f.line_U # None)
            # (f.line_T # None /\ EndsWith(f.line_T[1], <<",">>))
    THEN Raise(f, "InconsistentContinuation")
    ELSE IF f.line_S[1] = <<"%", "S">>
    THEN IF \/ f.line_T # None /\ ~StartsWith(f.line_T[1], <<"%", "T", " ">>)
            \/ f.line_U # None /\ ~StartsWith(f.line_U[1], <<"%", "U", " ">>)
         THEN Raise(Warn(f, {"BareS"}), "MissingPrefix")
         ELSE Warn([f EXCEPT !.line_S = Some(<<"%", "S", " ">>)], {"BareS"})
    ELSE IF \/ ~StartsWith(f.line_S[1], <<"%", "S", " ">>)
            \/ f.line_T # None /\ ~StartsWith(f.line_T[1], <<"%", "T", " ">>)
            \/ f.line_U # None /\ ~StartsWith(f.line_U[1], <<"%", "U", " ">>)
    THEN Raise(f, "MissingPrefix")
    ELSE f

\* lines 267-275: the inline values
ProcessSTU(f) ==
    Bind(DropFirst(f.line_S[1], 3)
         \o (IF f.line_T = None THEN <<>> ELSE DropFirst(f.line_T[1], 3))
         \o (IF f.line_U = None THEN <<>> ELSE DropFirst(f.line_U[1], 3)),
         LAMBDA STU :
        IF \E i \in 1..Len(StuFragments(STU)) : ~IntParses(StuFragments(STU)[i])
        THEN Raise([f EXCEPT !.STU = STU], "StuValueError")
        ELSE Bind(StuValues(STU), LAMBDA stu_values :
                 IF StuRoundTrip(stu_values, STU)
                 THEN [f EXCEPT !.STU = STU, !.stu_values = stu_values]
                 ELSE Raise([f EXCEPT !.STU = STU, !.stu_values = stu_values],
                            "DigitSequenceCorrupt")))

\* lines 279-302: the N, C, D and H directives
ProcessN(f) ==
    IF f.line_N = None
    THEN Raise(f, "MissingMandatoryDirective")
    ELSE IF \/ ~StartsWith(f.line_N[1], <<"%", "N", " ">>)
            \/ \E d \in {"C", "D", "H"} :
                  \E i \in 1..Len(LinesOf(f.lines, d)) :
                      ~StartsWith(LinesOf(f.lines, d)[i], <<"%", d, " ">>)
    THEN Raise(f, "MissingPrefix")
    ELSE [f EXCEPT !.entry.name = DropFirst(f.line_N[1], 3)]

\* lines 306-307: the A directive
ProcessA(f) ==
    IF Len(f.lines_A) = 0 THEN Warn(f, {"MissingAuthor"}) ELSE f

\* lines 311-320: the O directive
ProcessO(f) ==
    IF f.line_O = None
    THEN Warn(f, {"MissingOffset"})
    ELSE IF ~StartsWith(f.line_O[1], <<"%", "O", " ">>)
    THEN Raise(f, "MissingPrefix")
    ELSE Bind(Split(DropFirst(f.line_O[1], 3), ","), LAMBDA parts :
             IF \E i \in 1..Len(parts) : ~IntParses(parts[i])
             THEN Raise(f, "OffsetValueError")
             ELSE Bind(OffsetTuple(DropFirst(f.line_O[1], 3)), LAMBDA offset :
                      IF Len(offset) # 2
                      THEN Warn([f EXCEPT !.entry.offset = offset],
                                {"IllFormedOffset"})
                      ELSE [f EXCEPT !.entry.offset = offset]))

\* lines 324-351: the K directive
ProcessK(f) ==
    IF f.line_K = None
    THEN Raise(f, "MissingMandatoryDirective")
    ELSE IF ~StartsWith(f.line_K[1], <<"%", "K", " ">>)
    THEN Raise(f, "MissingPrefix")
    ELSE Bind(Split(DropFirst(f.line_K[1], 3), ","), LAMBDA fragments :
             Bind(CanonifyKeywords(fragments), LAMBDA keywords :
                 Warn([f EXCEPT !.keyword_fragments = fragments,
                                !.entry.keywords = keywords],
                      KeywordWarnings(fragments, keywords))))

\* lines 355-380: the b-file and the reconciliation
ProcessBfile(f, oeis_id, bfile_content) ==
    Bind(parse_bfile_content(oeis_id, bfile_content), LAMBDA bfile :
        Bind(Reconcile(f.stu_values, bfile.values), LAMBDA values :
            Warn([f EXCEPT !.bfile_first_index = bfile.first_index,
                           !.bfile_values = bfile.values,
                           !.entry.values = values],
                 bfile.log \cup
                 ReconcileLog(f.stu_values, bfile.first_index, bfile.values,
                              values, f.entry.offset))))

\* line 384: the record is returned
Return(f, oeis_id) == [f EXCEPT !.outcome = "ok", !.entry.oeis_id = oeis_id]

parse_oeis_content(oeis_id, main_content, bfile_content) ==
    Then(Then(Then(Then(Then(Then(Then(Then(Then(Then(
        CheckOrder(NoLocals, main_content),
        LAMBDA f : CollectDirectives(f)),
        LAMBDA f : ProcessI(f)),
        LAMBDA f : CheckSTU(f)),
        LAMBDA f : ProcessSTU(f)),
        LAMBDA f : ProcessN(f)),
        LAMBDA f : ProcessA(f)),
        LAMBDA f : ProcessO(f)),
        LAMBDA f : ProcessK(f)),
        LAMBDA f : ProcessBfile(f, oeis_id, bfile_content)),
        LAMBDA f : Return(f, oeis_id))

(***************************************************************************)
(* process_database                                                        *)
(***************************************************************************)

WRITE_REDUCED_THRESHOLD == 10000

TypeOK ==
    /\ pc \in {"fetch", "raised", "dump", "done"}
    /\ cursor \in 1..(Len(db) + 1)
    /\ Len(entries) < cursor

\* the state of process_database when the SELECT has been executed on a
\* database holding the rows db (ordered by oeis_id)
Start(rows) ==
    /\ db = rows
    /\ pc = "fetch"
    /\ cursor = 1
    /\ entries = <<>>
    /\ last = NoLocals
    /\ pickled = [full |-> None, reduced |-> None]

\* lines 403-410: fetchone() returns a row, which is parsed and appended.
\* An exception of parse_oeis_content is caught nowhere: the finally blocks
\* close the cursor and the connection and process_database is left.
FetchAndParse ==
    /\ pc = "fetch"
    /\ cursor <= Len(db)
    /\ LET oeis_entry == db[cursor]
           entry == parse_oeis_content(oeis_entry.oeis_id,
                                       oeis_entry.main_content,
                                       oeis_entry.bfile_content)
       IN  /\ last' = entry
           /\ IF entry.outcome = "ok"
              THEN /\ entries' = Append(entries, entry.entry)
                   /\ cursor' = cursor + 1
                   /\ pc' = "fetch"
              ELSE /\ pc' = "raised"
                   /\ UNCHANGED <<entries, cursor>>
    /\ UNCHANGED <<db, pickled>>

\* lines 404-405: fetchone() returns None, the loop is left
FetchNone ==
    /\ pc = "fetch"
    /\ cursor > Len(db)
    /\ pc' = "dump"
    /\ UNCHANGED <<db, cursor, entries, last, pickled>>

\* lines 419-435: the pickle files are written
WritePickle ==
    /\ pc = "dump"
    /\ pickled' =
          [full |-> Some(entries),
           reduced |-> IF Len(entries) > WRITE_REDUCED_THRESHOLD
                       THEN Some(SubSeq(entries, 1, WRITE_REDUCED_THRESHOLD))
                       ELSE None]
    /\ pc' = "done"
    /\ UNCHANGED <<db, cursor, entries, last>>

Next == FetchAndParse \/ FetchNone \/ WritePickle

(***************************************************************************)
(* Inputs                                                                  *)
(***************************************************************************)

Row(id, main_content, bfile_content) ==
    [oeis_id |-> id, main_content |-> main_content,
     bfile_content |-> bfile_content]

\* the text whose lines are the given ones
Text(lines) == Join(lines, <<NL>>)

\* a directive line with its three-character prefix
Line(d, payload) == <<"%", d, " ">> \o payload

\* ---- entries with every order of directives ----

MaxLines == 5

\* the directives of the exhaustive part
LetterSet == {"I", "S", "N", "C", "K", "A"}

\* an entry with every directive, in the order of the comment of lines 47-64
FullCode ==
    <<"I", "S", "T", "U", "N", "C", "D", "H", "F", "e", "p", "t", "o", "Y",
      "K", "O", "A", "E">>

Without(code, i) == SubSeq(code, 1, i - 1) \o SubSeq(code, i + 1, Len(code))

Doubled(code, i) == SubSeq(code, 1, i) \o SubSeq(code, i, Len(code))

Swapped(code, i) ==
    [j \in 1..Len(code) |->
        IF j = i THEN code[i + 1] ELSE IF j = i + 1 THEN code[i] ELSE code[j]]

\* FullCode with one line removed, repeated or exchanged with the next one
PerturbedCodes ==
    {FullCode}
    \cup {Without(FullCode, i) : i \in 1..Len(FullCode)}
    \cup {Doubled(FullCode, i) : i \in 1..Len(FullCode)}
    \cup {Swapped(FullCode, i) : i \in 1..(Len(FullCode) - 1)}

MaxAuthors == 3

Repeat(c, n) == [i \in 1..n |-> c]

\* entries that differ in the number of %A lines only
AuthorCodes ==
    {<<"I">> \o stu \o <<"N">> \o c \o <<"K">> \o o \o Repeat("A", a) \o e :
        stu \in {<<"S">>, <<"S", "T">>, <<"S", "T", "U">>},
        c \in {<<>>, <<"C">>},
        o \in {<<>>, <<"O">>},
        a \in 0..MaxAuthors,
        e \in {<<>>, <<"E">>}}

\* entries with every arrangement of up to three S, T and U lines
DataCodes ==
    {<<"I">> \o stu \o <<"N", "K">> :
        stu \in UNION {[1..n -> {"S", "T", "U"}] : n \in 1..3}}

CodeStrings ==
    UNION {[1..n -> LetterSet] : n \in 0..MaxLines}
    \cup PerturbedCodes \cup AuthorCodes \cup DataCodes

\* a well-formed line for directive code[i]; an S or T line ends in a comma
\* when a continuation line is part of the entry
LineFor(code, i) ==
    LET d == code[i]
        hasT == \E j \in 1..Len(code) : code[j] = "T"
        hasU == \E j \in 1..Len(code) : code[j] = "U"
    IN  IF d = "I" THEN <<"%", "I">>
        ELSE IF d = "S" THEN Line("S", IF hasT THEN <<"1", ",">> ELSE <<"1">>)
        ELSE IF d = "T" THEN Line("T", IF hasU THEN <<"2", ",">> ELSE <<"2">>)
        ELSE IF d = "U" THEN Line("U", <<"3">>)
        ELSE IF d = "K" THEN Line("K", <<"n", "o", "n", "n">>)
        ELSE IF d = "O" THEN Line("O", <<"0", ",", "1">>)
        ELSE Line(d, <<"x">>)

EntryFor(code) == Text([i \in 1..Len(code) |-> LineFor(code, i)])

InitOrder == \E code \in CodeStrings : Start(<<Row(1, EntryFor(code), <<>>)>>)

SpecOrder == InitOrder /\ [][Next]_vars

\* ---- entries that differ in one part only ----

\* strings of at most n characters of the set chars
Strings(chars, n) == UNION {[1..k -> chars] : k \in 0..n}

\* an entry I S [T] [U] N K [O] A with the given lines S, T, U and O, each
\* None or a line
EntryWith(line_S, line_T, line_U, line_K, line_O) ==
    Text(<<<<"%", "I", " ", "N", "0", "0", "0", "1">>>>
         \o line_S \o line_T \o line_U
         \o <<Line("N", <<"x">>)>>
         \o line_K \o line_O
         \o <<Line("A", <<"x">>)>>)

DefaultK == Line("K", <<"n", "o", "n", "n">>)

\* the b-file "1 1"
DefaultBfile == <<"1", " ", "1">>

\* -- the S, T and U lines --

MaxStuLen == 4

StuChars == {"0", "1", "-", "+", ",", " "}

SLines ==
    {Line("S", payload) : payload \in Strings(StuChars, MaxStuLen)}
    \cup {<<"%", "S">>, <<"%", "S", "1">>}

TLines == {None, Some(Line("T", <<"1">>)), Some(Line("T", <<"1", ",">>))}

ULines == {None, Some(Line("U", <<"2">>))}

InitStu ==
    \E line_S \in SLines, line_T \in TLines, line_U \in ULines :
        Start(<<Row(1, EntryWith(Some(line_S), line_T, line_U, Some(DefaultK),
                                 Some(Line("O", <<"1", ",", "1">>))),
                    DefaultBfile)>>)

SpecStu == InitStu /\ [][Next]_vars

\* -- the O line --

MaxOffsetLen == 5

OffsetChars == {"1", "2", "-", ",", " "}

OLines ==
    {Some(Line("O", payload)) : payload \in Strings(OffsetChars, MaxOffsetLen)}
    \cup {None, Some(<<"%", "O">>), Some(<<"%", "O", "1", ",", "1">>)}

InitOffset ==
    \E line_O \in OLines :
        Start(<<Row(1, EntryWith(Some(Line("S", <<"1">>)), None, None,
                                 Some(DefaultK), line_O),
                    DefaultBfile)>>)

SpecOffset == InitOffset /\ [][Next]_vars

\* -- the K line --

MaxFragments == 4

FragmentPool ==
    {<<>>, <<"n", "o", "n", "n">>, <<"s", "i", "g", "n">>,
     <<"f", "u", "l", "l">>, <<"f", "i", "n", "i">>,
     <<"b", "o", "g", "u", "s">>}

FragmentLists == UNION {[1..n -> FragmentPool] : n \in 1..MaxFragments}

InitKeywords ==
    \E fragments \in FragmentLists :
        Start(<<Row(1, EntryWith(Some(Line("S", <<"1">>)), None, None,
                                 Some(Line("K", Join(fragments, <<",">>))),
                                 Some(Line("O", <<"1", ",", "1">>))),
                    DefaultBfile)>>)

SpecKeywords == InitKeywords /\ [][Next]_vars

\* -- inline values and b-file values --

MaxValues == 3

ValueSet == {-1, 2}

ValueLists(n) == UNION {[1..k -> ValueSet] : k \in 0..n}

\* the b-file with the given values from index first on; from line gap on
\* (if gap > 0) the indexes are one too high
BfileOf(vals, first, gap) ==
    Text([i \in 1..Len(vals) |->
            IntStr(first + i - 1 + (IF gap > 0 /\ i >= gap THEN 1 ELSE 0))
            \o <<" ">> \o IntStr(vals[i])])

InitReconcile ==
    \E stu \in ValueLists(MaxValues), bf \in ValueLists(MaxValues + 1),
       gap \in 0..(MaxValues + 1) :
        Start(<<Row(1, EntryWith(Some(Line("S", JoinValues(stu))), None, None,
                                 Some(DefaultK),
                                 Some(Line("O", <<"1", ",", "1">>))),
                    BfileOf(bf, 1, gap))>>)

SpecReconcile == InitReconcile /\ [][Next]_vars

\* -- b-files --

MaxBfileLines == 3

BfileLinePool ==
    {<<"0", " ", "1">>, <<"1", " ", "2">>, <<"2", " ", "-", "3">>,
     <<"3", " ", "5">>, <<" ", "1", TAB, " ", "2", " ">>,
     <<"-", "1", " ", "7">>, <<"#", " ", "c">>, <<>>, <<" ", "#">>,
     <<"2", " ", "4", "x">>, <<"1", " ", "2", " ", "3">>, <<"1", "2">>,
     <<"x">>}

BfileTexts ==
    {Text(lines) : lines \in UNION {[1..n -> BfileLinePool] : n \in 0..MaxBfileLines}}

InitBfile ==
    \E bfile_content \in BfileTexts :
        Start(<<Row(1, EntryWith(Some(Line("S", <<>>)), None, None,
                                 Some(DefaultK),
                                 Some(Line("O", <<"1", ",", "1">>))),
                    bfile_content)>>)

SpecBfile == InitBfile /\ [][Next]_vars

\* -- databases of several rows --

MaxRows == 3

\* two entries that parse, one with K before N, one with a corrupt S line
MainContents ==
    {EntryFor(<<"I", "S", "N", "K", "O", "A">>),
     EntryFor(<<"I", "S", "T", "N", "C", "K">>),
     EntryFor(<<"I", "S", "K", "N">>),
     EntryWith(Some(Line("S", <<"+", "1">>)), None, None, Some(DefaultK), None)}

Databases ==
    UNION {[1..n -> {Row(0, m, DefaultBfile) : m \in MainContents}] :
              n \in 0..MaxRows}

\* the rows in the order of their ids 1, 2, ...
InitBatch ==
    \E rows \in Databases :
        Start([i \in 1..Len(rows) |-> [rows[i] EXCEPT !.oeis_id = i]])

Spec == InitBatch /\ [][Next]_vars

(***************************************************************************)
(* Properties                                                              *)
(***************************************************************************)

\* a call of parse_oeis_content has ended
Parsed == last.outcome # "none"

\* the row the last call of parse_oeis_content was given
ParsedRow == IF last.outcome = "ok" THEN db[cursor - 1] ELSE db[cursor]

ParsedLines == Split(ParsedRow.main_content, NL)

\* the second character of every line ("" for a line that has none)
CodeString ==
    [i \in 1..Len(ParsedLines) |->
        IF Len(ParsedLines[i]) >= 2 THEN ParsedLines[i][2] ELSE ""]

Count(code, d) == Cardinality({i \in 1..Len(code) : code[i] = d})

\* the place of a directive in I (S|ST|STU) N C* D* H* F* e* p* t* o* Y* K O? A? E*
Place(d) == CHOOSE i \in 1..Len(FullCode) : FullCode[i] = d

\* the grammar, stated on the places and the numbers of the directives
InGrammar(code) ==
    /\ \A i \in 1..Len(code) : \E j \in 1..Len(FullCode) : FullCode[j] = code[i]
    /\ \A i \in 1..(Len(code) - 1) : Place(code[i]) <= Place(code[i + 1])
    /\ \A d \in {"I", "S", "N", "K"} : Count(code, d) = 1
    /\ \A d \in {"T", "U", "O", "A"} : Count(code, d) <= 1
    /\ Count(code, "U") = 1 => Count(code, "T") = 1

\* the locals that hold the fields extracted from the lines
Fields(f) ==
    [line_I |-> f.line_I, line_S |-> f.line_S, line_T |-> f.line_T,
     line_U |-> f.line_U, line_N |-> f.line_N, line_K |-> f.line_K,
     line_O |-> f.line_O, lines_A |-> f.lines_A, STU |-> f.STU,
     stu_values |-> f.stu_values, keyword_fragments |-> f.keyword_fragments,
     entry |-> f.entry]

OneAuthor(code) ==
    LET first == CHOOSE i \in 1..Len(code) :
                     code[i] = "A" /\ \A j \in 1..(i - 1) : code[j] # "A"
    IN  SelectSeq([i \in 1..Len(code) |-> IF code[i] = "A" /\ i # first
                                           THEN "-" ELSE code[i]],
                  LAMBDA d : d # "-")

\* the entry is valid but for the number of its %A lines, which are
\* consecutive and stand in the place of the author line
ValidButForAuthors(code) ==
    /\ \A i, j \in 1..Len(code) :
          (i < j /\ code[i] = "A" /\ code[j] = "A") =>
              \A k \in i..j : code[k] = "A"
    /\ IF Count(code, "A") = 0 THEN InGrammar(code)
       ELSE InGrammar(OneAuthor(code))

\* C9: an otherwise valid entry without %A line is accepted with the
\* MissingAuthor warning, and one with any positive number of consecutive
\* %A lines in the author position is accepted without that warning.
C9_AuthorLines ==
    (Parsed /\ last.error # "MalformedLine" /\ ValidButForAuthors(CodeString)) =>
        /\ last.outcome = "ok"
        /\ ("MissingAuthor" \in last.log) <=> (Count(CodeString, "A") = 0)

\* the values of the overlap of the two lists agree
Agree(a, b) == \A i \in 1..Min(Len(a), Len(b)) : a[i] = b[i]

\* C2: in process_database a fatal failure of one entry aborts that entry
\* only: when the driver has stopped, every row has been fetched and the
\* serialized list holds the records of exactly the rows that parse, in the
\* order of the rows.
C2_BatchContinues ==
    pc \notin {"fetch", "dump"} =>
        /\ cursor > Len(db)
        /\ pickled.full # None
        /\ LET good == SelectSeq(db, LAMBDA row :
                           parse_oeis_content(row.oeis_id, row.main_content,
                                              row.bfile_content).outcome = "ok")
           IN  pickled.full =
                   Some([i \in 1..Len(good) |->
                            parse_oeis_content(good[i].oeis_id,
                                               good[i].main_content,
                                               good[i].bfile_content).entry])

\* C3: if the inline values and the b-file values agree on their overlap,
\* the values of the record are the b-file values when these are strictly
\* longer and the inline values otherwise; if they differ somewhere in the
\* overlap, the values are the inline values and ValuesMismatch is logged;
\* the reconciliation never aborts the parse.
C3_Reconciliation ==
    Parsed =>
        /\ last.outcome = "ok"
        /\ LET stu == last.stu_values
               bf == last.bfile_values
           IN  /\ (Agree(stu, bf) /\ Len(bf) > Len(stu)) =>
                      last.entry.values = bf
               /\ (Agree(stu, bf) /\ Len(bf) <= Len(stu)) =>
                      last.entry.values = stu
               /\ ~Agree(stu, bf) =>
                      /\ last.entry.values = stu
                      /\ "ValuesMismatch" \in last.log

\* a consistent b-file that is strictly longer than the inline values won
C3_Witness ==
    /\ last.outcome = "ok"
    /\ last.stu_values = <<-1, 2>>
    /\ last.bfile_values = <<-1, 2, 2>>
    /\ last.entry.values = <<-1, 2, 2>>

\* the lines of the b-file that are no comment and not blank
DataLines(bfile_content) ==
    SelectSeq(Split(bfile_content, NL),
              LAMBDA l : ~StartsWith(l, <<"#">>) /\ Strip(l) # <<>>)

\* the line is an index, whitespace, a value and nothing else
TwoIntegersOnly(l) ==
    LET t == Strip(l)
        m == bfile_line_pattern(t)
    IN  /\ m # None
        /\ \E ws \in 1..Len(t) :
              /\ Len(m[1].group1) + ws + Len(m[1].group2) = Len(t)
              /\ \A j \in (Len(m[1].group1) + 1)..(Len(m[1].group1) + ws) :
                    t[j] \in {" ", TAB}
              /\ SubSeq(t, Len(m[1].group1) + ws + 1, Len(t)) = m[1].group2

LineIndex(l) == IntOf(bfile_line_pattern(Strip(l))[1].group1)

LineValue(l) == IntOf(bfile_line_pattern(Strip(l))[1].group2)

\* the length of the longest leading run of data lines of two integers only
\* with indexes that go up by one
LeadingRun(data) ==
    CHOOSE n \in 0..Len(data) :
        /\ \A i \in 1..n : TwoIntegersOnly(data[i])
        /\ \A i \in 2..n : LineIndex(data[i]) = LineIndex(data[i - 1]) + 1
        /\ \/ n = Len(data)
           \/ ~TwoIntegersOnly(data[n + 1])
           \/ n > 0 /\ LineIndex(data[n + 1]) # LineIndex(data[n]) + 1

\* C4: parse_bfile_content returns exactly the values of the longest leading
\* run of data lines that consist of an index and a value and nothing else,
\* with indexes going up by one, and the index of the first accepted line,
\* or no index when no line was accepted.
C4_BfileLeadingRun ==
    last.outcome = "ok" =>
        LET data == DataLines(ParsedRow.bfile_content)
            n == LeadingRun(data)
        IN  /\ last.bfile_values = [i \in 1..n |-> LineValue(data[i])]
            /\ last.bfile_first_index =
                  (IF n = 0 THEN None ELSE Some(LineIndex(data[1])))

\* the keywords are in strictly ascending order
StrictlySorted(keywords) ==
    \A i \in 1..(Len(keywords) - 1) : StrLess(keywords[i], keywords[i + 1])

\* C5 as claimed: the stored keywords are the sorted, duplicate-free list of
\* the non-empty fragments that belong to the known vocabulary; unknown and
\* empty fragments are reported and not stored.
C5_KnownKeywordsOnly ==
    last.outcome = "ok" =>
        /\ StrictlySorted(last.entry.keywords)
        /\ Range(last.entry.keywords) =
              {f \in Range(last.keyword_fragments) :
                  f # <<>> /\ f \in expected_keywords_set}
        /\ (<<>> \in Range(last.keyword_fragments)) =>
              "EmptyKeyword" \in last.log
        /\ (\E f \in Range(last.keyword_fragments) :
               f # <<>> /\ f \notin expected_keywords_set) =>
              "UnknownKeyword" \in last.log

\* C5 as amended: the stored keywords are the sorted, duplicate-free list of
\* the non-empty fragments, known or not; unknown and empty fragments are
\* reported as UnknownKeyword and EmptyKeyword, and only the empty ones are
\* left out of the stored keywords.
C5_KeywordsCanonical ==
    last.outcome = "ok" =>
        /\ StrictlySorted(last.entry.keywords)
        /\ Range(last.entry.keywords) =
              {f \in Range(last.keyword_fragments) : f # <<>>}
        /\ (<<>> \in Range(last.keyword_fragments)) <=>
              "EmptyKeyword" \in last.log
        /\ (\E f \in Range(last.keyword_fragments) :
               f # <<>> /\ f \notin expected_keywords_set) <=>
              "UnknownKeyword" \in last.log

\* the fragments "nonn", "nonn", "", "bogus" gave the keywords "bogus", "nonn"
C5_Witness ==
    /\ last.outcome = "ok"
    /\ last.keyword_fragments =
          <<<<"n", "o", "n", "n">>, <<"n", "o", "n", "n">>, <<>>,
            <<"b", "o", "g", "u", "s">>>>
    /\ last.entry.keywords =
          <<<<"b", "o", "g", "u", "s">>, <<"n", "o", "n", "n">>>>
    /\ {"EmptyKeyword", "UnknownKeyword", "DuplicateKeyword"} \subseteq last.log

\* the payload of the %O line of the parsed entry
OffsetPayload == DropFirst(last.line_O[1], 3)

\* C6 as claimed: the offset of a returned record is empty or has exactly
\* two components.
C6_OffsetPair ==
    last.outcome = "ok" => Len(last.entry.offset) \in {0, 2}

\* C6 as amended: the offset of a returned record is empty exactly when the
\* entry has no %O line; otherwise it has one integer component for each
\* comma-separated fragment of the payload, and it has another number of
\* components than two exactly when IllFormedOffset was logged.
C6_OffsetComponents ==
    last.outcome = "ok" =>
        /\ (last.line_O = None) <=> (Len(last.entry.offset) = 0)
        /\ last.line_O # None =>
              /\ Len(last.entry.offset) = Count(OffsetPayload, ",") + 1
              /\ (Len(last.entry.offset) # 2) <=> ("IllFormedOffset" \in last.log)
        /\ last.line_O = None => "IllFormedOffset" \notin last.log

\* a record with an offset of three components has been returned
C6_Witness ==
    /\ last.outcome = "ok"
    /\ Len(last.entry.offset) = 3
    /\ "IllFormedOffset" \in last.log

\* the payloads of the S, T and U lines of the parsed entry, concatenated
InlinePayload ==
    LET payload(d) == IF LinesOf(ParsedLines, d) = <<>> THEN <<>>
                      ELSE DropFirst(LinesOf(ParsedLines, d)[1], 3)
    IN  payload("S") \o payload("T") \o payload("U")

\* a decimal number as str() writes it
CanonicalNumber(f) ==
    LET digits == IF f # <<>> /\ f[1] = "-" THEN Tail(f) ELSE f
    IN  /\ digits # <<>>
        /\ \A i \in 1..Len(digits) : IsDigit(digits[i])
        /\ digits[1] = "0" => (Len(digits) = 1 /\ f[1] # "-")

\* numbers as str() writes them, separated by single commas
CanonicalList(s) ==
    s = <<>> \/ \A i \in 1..Len(Split(s, ",")) : CanonicalNumber(Split(s, ",")[i])

\* C7: whenever parse_oeis_content succeeds, the inline integers joined with
\* commas are the concatenation of the S, T and U payloads character for
\* character; a concatenation that is not such a list (leading '+', leading
\* zeros, '-0', spaces, doubled or trailing comma) makes the entry fail.
C7_DigitRoundTrip ==
    (Parsed /\ last.error # "MalformedLine") =>
        /\ last.outcome = "ok" =>
              /\ JoinValues(last.stu_values) = InlinePayload
              /\ CanonicalList(InlinePayload)
        /\ ~CanonicalList(InlinePayload) => last.outcome = "fatal"

\* the payloads "1," "1," "2" of an S, a T and a U line gave 1, 1, 2
C7_Witness ==
    /\ last.outcome = "ok"
    /\ InlinePayload = <<"1", ",", "1", ",", "2">>
    /\ last.stu_values = <<1, 1, 2>>

\* the payload yields exactly two integers
TwoIntegers(payload) ==
    /\ Len(Split(payload, ",")) = 2
    /\ \A i \in 1..2 : IntParses(Split(payload, ",")[i])

\* C8: a %O line with the "%O " prefix never makes the entry fail: a payload
\* that does not yield exactly two integers gives the IllFormedOffset
\* warning and a record is still returned.
C8_OffsetNeverFatal ==
    (Parsed /\ LinesOf(ParsedLines, "O") # <<>>
            /\ StartsWith(LinesOf(ParsedLines, "O")[1], <<"%", "O", " ">>)) =>
        /\ last.outcome = "ok"
        /\ ~TwoIntegers(DropFirst(LinesOf(ParsedLines, "O")[1], 3)) =>
              "IllFormedOffset" \in last.log

\* C10: in every returned record the inline values are a prefix of the
\* values of the record, whatever the b-file holds.
C10_InlinePrefix ==
    last.outcome = "ok" =>
        /\ Len(last.entry.values) >= Len(last.stu_values)
        /\ \A i \in 1..Len(last.stu_values) :
              last.entry.values[i] = last.stu_values[i]

\* a b-file that contradicts the inline values and is longer was not used
C10_Witness ==
    /\ last.outcome = "ok"
    /\ ~Agree(last.stu_values, last.bfile_values)
    /\ Len(last.bfile_values) > Len(last.stu_values)
    /\ Len(last.stu_values) > 0
    /\ last.entry.values = last.stu_values

====
